---- MODULE Spec2Model ----
(***************************************************************************)
(* Single-level time wheel of src/timer_pool/timer_mgr.h (TimerMgr).       *)
(*                                                                         *)
(* The memory block is modelled as three variables named after the         *)
(* pointers of the class: timer_head (TimerHead), timer_bucket (the        *)
(* TimerBucket array) and timer_obj (the TimerObj array, slots 1..max_num; *)
(* slot 0 is the sentinel the code never reads or writes).  The opaque     *)
(* payload timer_data is not modelled: no branch of the code reads it.     *)
(*                                                                         *)
(* gettimeofday() is the variable clock, advanced by Tick.  OnTimeout is a *)
(* virtual call made in the middle of Update, so Update is modelled in     *)
(* steps: from its call to the first OnTimeout invocation, from the return *)
(* of one callback to the next invocation, and so on until it returns.     *)
(* While a callback runs (pc = "cb") it may call DelTimer and AddTimer.    *)
(*                                                                         *)
(* The wheel is scaled down: kTimerBucketNum is 60 in the source and 2     *)
(* here, so that a full revolution fits in the explored clock range.       *)
(***************************************************************************)
EXTENDS Integers, Sequences, FiniteSets, TLC

kTimerBucketNum == 2

\* capacity of the wheel (timer_num given to Init)
MaxNum == 3
\* number of clock ticks explored after construction
MaxClock == 3
\* number of successful AddTimer calls explored
MaxSeq == 2
\* largest fire_count argument explored
MaxFire == 2
\* number of calls one callback makes into the manager
MaxCbOps == 2
\* cap on a slot's fire_count (the counter is unbounded in the code)
FireCap == MaxClock + 1

\* capacity of the wheel of SpecZeroed
ZeroedNum == 2

\* value of time(NULL) / gettimeofday at construction
StartTime == 1

\* stands for the largest size_t (2^64 - 1): used_num-- on 0 wraps to it
SIZE_MAX == 2147483647

VARIABLES timer_head, timer_bucket, timer_obj, clock, pc, upd, ret, issued, deleted, freed

vars == <<timer_head, timer_bucket, timer_obj, clock, pc, upd, ret, issued, deleted, freed>>

Buckets == 0..(kTimerBucketNum - 1)

\* TimerID: pos in the low word, seq in the high word
TimerID(pos, seq) == <<pos, seq>>

\* what a slot's bytes hold before the code first writes them: Init sets
\* only prev and next, so used and the timer fields are whatever the buffer
\* held (new char[] in Init(key_t, ...)): all zero, or not.  The stale id is
\* taken to differ from every handle AddTimer returns.
Uninitialized ==
    { [used |-> 0, interval_ms |-> 0, max_fire_count |-> 0, fire_count |-> 0,
       expire |-> 0, timer_id |-> TimerID(0, 0)],
      [used |-> 1, interval_ms |-> 1, max_fire_count |-> 1, fire_count |-> 0,
       expire |-> 0, timer_id |-> TimerID(0, 0)],
      [used |-> 1, interval_ms |-> 1, max_fire_count |-> 0, fire_count |-> 0,
       expire |-> 0, timer_id |-> TimerID(0, 0)] }

Mem == [head |-> timer_head, bucket |-> timer_bucket, obj |-> timer_obj]

SetMem(m) ==
    /\ timer_head' = m.head
    /\ timer_bucket' = m.bucket
    /\ timer_obj' = m.obj

\* size_t arithmetic on used_num
SizeInc(n) == IF n = SIZE_MAX THEN 0 ELSE n + 1
SizeDec(n) == IF n = 0 THEN SIZE_MAX ELSE n - 1

BucketOf(expire) == expire % kTimerBucketNum

----------------------------------------------------------------------------
\* Slot arena

\* AllocNode that counts the slot before it knows there is one
AllocNodeCountsFirst(m) ==
    LET position == m.head.free_head
        m0 == [m EXCEPT !.head.used_num = SizeInc(@)] IN
    IF position > 0 /\ m.head.used_num <= m.head.max_num
    THEN [m |-> [m0 EXCEPT !.head.free_head = m.obj[position].next,
                           !.obj[position].used = 1,
                           !.obj[position].prev = 0,
                           !.obj[position].next = 0],
          position |-> position]
    ELSE [m |-> m0, position |-> 0]

AllocNode(m) ==
    LET position == m.head.free_head IN
    IF position > 0 /\ m.head.used_num <= m.head.max_num
    THEN [m |-> [m EXCEPT !.head.free_head = m.obj[position].next,
                          !.head.used_num = SizeInc(@),
                          !.obj[position].used = 1,
                          !.obj[position].prev = 0,
                          !.obj[position].next = 0],
          position |-> position]
    ELSE [m |-> m, position |-> 0]

\* FreeNode that clears the slot but does not push it onto the free list
FreeNodeUnlinked(m, position) ==
    [m EXCEPT !.obj[position].used = 0,
              !.obj[position].prev = 0,
              !.obj[position].next = m.head.free_head,
              !.head.used_num = SizeDec(@)]

FreeNode(m, position) ==
    [m EXCEPT !.obj[position].used = 0,
              !.obj[position].prev = 0,
              !.obj[position].next = m.head.free_head,
              !.head.free_head = position,
              !.head.used_num = SizeDec(@)]

\* the free list threaded by the loop of Init: n -> ... -> 1 pushed in turn,
\* leaving free_head = 1 and next(i) = i + 1, next(n) = 0
InitFresh(timer_num, now, garbage) ==
    [head |-> [max_num |-> timer_num,
               used_num |-> 0,
               seq |-> now,
               cur_bucket_time |-> now,
               cur_bucket_pos |-> now % kTimerBucketNum,
               free_head |-> IF timer_num > 0 THEN 1 ELSE 0],
     bucket |-> [b \in Buckets |-> 0],
     obj |-> [i \in 1..timer_num |->
                [prev |-> 0,
                 next |-> IF i < timer_num THEN i + 1 ELSE 0,
                 used |-> garbage[i].used,
                 interval_ms |-> garbage[i].interval_ms,
                 max_fire_count |-> garbage[i].max_fire_count,
                 fire_count |-> garbage[i].fire_count,
                 expire |-> garbage[i].expire,
                 timer_id |-> garbage[i].timer_id]]]

\* sizes in bytes of the structures of lines 37-64 on an LP64 build; TimerObj
\* is 48 bytes of links and bookkeeping followed by the payload
SizeofTimerHead == 64
SizeofTimerBucket == 8
SizeofTimerObj(data_size) == 48 + data_size

\* sizeof(TimerDataType) of the instantiation that set the buffer up, and the
\* payload sizes of the instantiations that may attach to it
DataSize == 8
DataSizes == {8, 16}

TotalMemSize(timer_num, data_size) ==
    SizeofTimerHead + SizeofTimerBucket * kTimerBucketNum
        + (timer_num + 1) * SizeofTimerObj(data_size)

\* max_size and data_size as the fresh Init left them in the head (lines
\* 157-158) when called through Init(key, timer_num) with a buffer of
\* TotalMemSize(timer_num) bytes (lines 137-140); no other operation writes
\* them
StoredSizes(m) ==
    [max_size |-> TotalMemSize(m.head.max_num, DataSize),
     data_size |-> DataSize]

InitAttachNoCapacityTest(m, stored, max_size, data_size, timer_num) ==
    [m |-> m,
     ret |-> IF max_size < TotalMemSize(timer_num, data_size) THEN -1
             ELSE IF stored.max_size # max_size THEN -1
             ELSE IF stored.data_size # data_size THEN -2
             ELSE 0]

\* Init(mem, max_size, timer_num, fresh = false), lines 150-153 and 182-203:
\* the tests of the stored sizes and capacity; nothing is written to the
\* buffer
InitAttach(m, stored, max_size, data_size, timer_num) ==
    [m |-> m,
     ret |-> IF max_size < TotalMemSize(timer_num, data_size) THEN -1
             ELSE IF stored.max_size # max_size THEN -1
             ELSE IF stored.data_size # data_size THEN -2
             ELSE IF m.head.max_num # timer_num THEN -3
             ELSE 0]

----------------------------------------------------------------------------
\* Bucket wheel: the link-at-front sequence shared by AddTimer and re-arm

LinkFront(m, position) ==
    LET b  == BucketOf(m.obj[position].expire)
        m1 == [m EXCEPT !.obj[position].prev = 0]
        m2 == [m1 EXCEPT !.obj[position].next = m1.bucket[b]]
        m3 == IF m2.bucket[b] # 0
              THEN [m2 EXCEPT !.obj[m2.bucket[b]].prev = position]
              ELSE m2
    IN [m3 EXCEPT !.bucket[b] = position]

----------------------------------------------------------------------------
\* AddTimer

AddTimerOp(m, now, interval_ms, fire_count) ==
    IF interval_ms <= 0 \/ interval_ms > kTimerBucketNum \/ fire_count < 0
    THEN [m |-> m, ret |-> -1, timer_id |-> TimerID(0, 0)]
    ELSE LET expire == now + interval_ms IN
         IF expire < m.head.cur_bucket_time
         THEN [m |-> m, ret |-> -1, timer_id |-> TimerID(0, 0)]
         ELSE LET a == AllocNode(m)
                  position == a.position
              IN IF position = 0
                 THEN [m |-> a.m, ret |-> -2, timer_id |-> TimerID(0, 0)]
                 ELSE LET id == TimerID(position, a.m.head.seq)
                          m1 == [a.m EXCEPT !.obj[position].timer_id = id,
                                            !.head.seq = @ + 1,
                                            !.obj[position].interval_ms = interval_ms,
                                            !.obj[position].expire = expire,
                                            !.obj[position].max_fire_count = fire_count,
                                            !.obj[position].fire_count = 0]
                      IN [m |-> LinkFront(m1, position), ret |-> 0, timer_id |-> id]

----------------------------------------------------------------------------
\* DelTimer

\* the while loop of DelTimer: the first slot of the list from `next` whose
\* id is timer_id, 0 when the list ends, -1 when the walk does not end
\* within max_num + 1 slots (a cyclic list: the code would not return)
RECURSIVE FindInBucket(_, _, _, _)
FindInBucket(m, next, timer_id, fuel) ==
    IF next = 0 THEN 0
    ELSE IF m.obj[next].timer_id = timer_id THEN next
    ELSE IF fuel = 0 THEN -1
    ELSE FindInBucket(m, m.obj[next].next, timer_id, fuel - 1)

\* the handle check comparing the slot position only, not the whole id
HandleValidNoSeq(m, timer_id) ==
    /\ ~(timer_id[1] <= 0 \/ timer_id[1] > m.head.max_num)
    /\ ~(m.obj[timer_id[1]].timer_id[1] # timer_id[1] \/ m.obj[timer_id[1]].used = 0)

\* lines 258-269 and 379-390: the checks DelTimer and GetExpireTime make on
\* a handle before using it
HandleValid(m, timer_id) ==
    /\ ~(timer_id[1] <= 0 \/ timer_id[1] > m.head.max_num)
    /\ ~(m.obj[timer_id[1]].timer_id # timer_id \/ m.obj[timer_id[1]].used = 0)

DelTimerOp(m, timer_id) ==
    IF ~HandleValid(m, timer_id)
    THEN [m |-> m, ret |-> -1]
    ELSE LET b    == BucketOf(m.obj[timer_id[1]].expire)
             next == FindInBucket(m, m.bucket[b], timer_id, m.head.max_num + 1)
         IN IF next > 0
            THEN LET m1 == IF m.obj[next].prev = 0
                           THEN [m EXCEPT !.bucket[b] = m.obj[next].next]
                           ELSE [m EXCEPT !.obj[m.obj[next].prev].next = m.obj[next].next]
                     m2 == IF m1.obj[next].next # 0
                           THEN [m1 EXCEPT !.obj[m1.obj[next].next].prev = m1.obj[next].prev]
                           ELSE m1
                 IN [m |-> FreeNode(m2, next), ret |-> 0]
            ELSE [m |-> m, ret |-> -1]

\* DelTimer returns: its search loop ends
DelTimerReturns(m, timer_id) ==
    HandleValid(m, timer_id) =>
        FindInBucket(m, m.bucket[BucketOf(m.obj[timer_id[1]].expire)],
                     timer_id, m.head.max_num + 1) # -1

----------------------------------------------------------------------------
\* GetExpireTime

GetExpireTimeOp(m, timer_id) ==
    IF ~HandleValid(m, timer_id)
    THEN [ret |-> -1, expire_time |-> 0]
    ELSE [ret |-> 0, expire_time |-> m.obj[timer_id[1]].expire]

----------------------------------------------------------------------------
\* Update.  u holds its locals: now_ms, wheel_count, the loop index i, pos
\* and next; ops counts the calls the running callback has made.

IdleUpd == [now_ms |-> 0, wheel_count |-> 0, i |-> 0, pos |-> 0, next |-> 0, ops |-> 0]

WalkedBucket(m, u) == (m.head.cur_bucket_pos + u.i) % kTimerBucketNum

UpdateFinishKeepsPos(m, u) ==
    [m |-> [m EXCEPT !.head.cur_bucket_time = u.now_ms],
     u |-> IdleUpd, pc |-> "idle"]

\* lines 370-373: record the tick and return
UpdateFinish(m, u) ==
    [m |-> [m EXCEPT !.head.cur_bucket_pos = u.now_ms % kTimerBucketNum,
                     !.head.cur_bucket_time = u.now_ms],
     u |-> IdleUpd, pc |-> "idle"]

\* lines 319-323: save next, count the firing, invoke OnTimeout
FireNode(m, u) ==
    [m |-> [m EXCEPT !.obj[u.pos].fire_count = @ + 1],
     u |-> [u EXCEPT !.next = m.obj[u.pos].next, !.ops = 0],
     pc |-> "cb"]

\* the loop conditions of lines 314-317, run until OnTimeout is to be
\* invoked for a slot or the for loop ends
RECURSIVE UpdateLoop(_, _)
UpdateLoop(m, u) ==
    IF u.i > u.wheel_count THEN UpdateFinish(m, u)
    ELSE IF u.pos > 0 THEN FireNode(m, u)
    ELSE IF u.i + 1 > u.wheel_count THEN UpdateFinish(m, u)
    ELSE LET u1 == [u EXCEPT !.i = u.i + 1] IN
         UpdateLoop(m, [u1 EXCEPT !.pos = m.bucket[WalkedBucket(m, u1)], !.next = 0])

\* lines 301-317: from the call to the first OnTimeout invocation or the return
UpdateEnter(m, now) ==
    IF m.head.used_num <= 0
    THEN [m |-> [m EXCEPT !.head.cur_bucket_time = now,
                          !.head.cur_bucket_pos = now % kTimerBucketNum],
          u |-> IdleUpd, pc |-> "idle"]
    ELSE LET u0 == [now_ms |-> now, wheel_count |-> now - m.head.cur_bucket_time,
                    i |-> 1, pos |-> 0, next |-> 0, ops |-> 0]
         IN IF u0.i > u0.wheel_count
            THEN UpdateFinish(m, u0)
            ELSE UpdateLoop(m, [u0 EXCEPT !.pos = m.bucket[WalkedBucket(m, u0)]])

\* lines 331-342: take the current node out of the list
UnlinkWalked(m, u) ==
    LET pos == u.pos IN
    IF m.obj[pos].prev # 0
    THEN LET m1 == [m EXCEPT !.obj[m.obj[pos].prev].next = m.obj[pos].next] IN
         IF m1.obj[pos].next # 0
         THEN [m1 EXCEPT !.obj[m1.obj[pos].next].prev = m1.obj[pos].prev]
         ELSE m1
    ELSE LET m1 == [m EXCEPT !.bucket[WalkedBucket(m, u)] = m.obj[pos].next] IN
         IF m1.obj[pos].next # 0
         THEN [m1 EXCEPT !.obj[m1.obj[pos].next].prev = 0]
         ELSE m1

\* line 350: the expire tick of a re-armed timer
RearmExpire(m, u) == u.now_ms + m.obj[u.pos].interval_ms

\* lines 344-358: release the node or arm it again
FreeOrRearm(m, u) ==
    LET pos == u.pos IN
    IF m.obj[pos].max_fire_count # 0 /\ m.obj[pos].fire_count >= m.obj[pos].max_fire_count
    THEN FreeNode(m, pos)
    ELSE LinkFront([m EXCEPT !.obj[pos].expire = RearmExpire(m, u)], pos)

\* lines 361-366: after a callback, `continue` (same pos) when the saved
\* next was released, else step to next
NextPos(m, u, next) ==
    IF next # 0 /\ m.obj[next].used = 0 THEN u.pos ELSE next

\* the processing after a callback without the test of line 326
AfterCallbackNoUsedTest(m, u) ==
    LET next == m.obj[u.pos].next
        m1   == FreeOrRearm(UnlinkWalked(m, u), u)
    IN UpdateLoop(m1, [u EXCEPT !.next = next, !.pos = NextPos(m1, u, next)])

\* lines 326-366 and on: from the return of OnTimeout to the next invocation
\* or to the return of Update
AfterCallback(m, u) ==
    LET still == m.obj[u.pos].used # 0
        next  == IF still THEN m.obj[u.pos].next ELSE u.next
        m1    == IF still THEN FreeOrRearm(UnlinkWalked(m, u), u) ELSE m
    IN UpdateLoop(m1, [u EXCEPT !.next = next, !.pos = NextPos(m1, u, next)])

\* Update with callbacks that make no call into the manager: the final
\* memory and the OnTimeout invocations in order, each with the handle, the
\* expire tick stored at the invocation and the tick of the bucket walked.
RECURSIVE UpdateRun(_, _)
UpdateRun(r, log) ==
    IF r.pc # "cb" THEN [m |-> r.m, log |-> log]
    ELSE UpdateRun(AfterCallback(r.m, r.u),
                   Append(log, [timer_id |-> r.m.obj[r.u.pos].timer_id,
                                expire |-> r.m.obj[r.u.pos].expire,
                                tick |-> r.m.head.cur_bucket_time + r.u.i]))

UpdateQuiet(m, now) == UpdateRun(UpdateEnter(m, now), <<>>)

\* Update with callbacks that call DelTimer on their own handle when it is
\* in D, and nothing else
RECURSIVE UpdateRunSelfDel(_, _, _)
UpdateRunSelfDel(r, log, D) ==
    IF r.pc # "cb" THEN [m |-> r.m, log |-> log]
    ELSE LET id == r.m.obj[r.u.pos].timer_id
             m1 == IF id \in D THEN DelTimerOp(r.m, id).m ELSE r.m
         IN UpdateRunSelfDel(AfterCallback(m1, r.u),
                             Append(log, [timer_id |-> id,
                                          expire |-> r.m.obj[r.u.pos].expire,
                                          tick |-> r.m.head.cur_bucket_time + r.u.i]),
                             D)

UpdateSelfDel(m, now, D) == UpdateRunSelfDel(UpdateEnter(m, now), <<>>, D)

----------------------------------------------------------------------------
\* The state machine

\* the handles the callers pass: every handle AddTimer has returned, live or
\* stale, and handles it never returned (position 0, a position past the
\* capacity, and a position in range with a sequence number never assigned)
Handles ==
    issued \cup {TimerID(0, StartTime), TimerID(timer_head.max_num + 1, StartTime),
                 TimerID(1, StartTime + MaxSeq)}

\* History kept for the properties: issued holds every handle AddTimer has
\* returned, deleted those a DelTimer called outside a callback has released,
\* freed those released by any DelTimer or by Update (FreeNode).
Active(m) ==
    {h \in issued : m.obj[h[1]].used # 0 /\ m.obj[h[1]].timer_id = h}

Released(m, m2) == Active(m) \ Active(m2)

\* the state after Init(mem, max_size, timer_num, fresh = true) at StartTime
Init ==
    /\ \E timer_num \in 1..MaxNum : \E garbage \in [1..timer_num -> Uninitialized] :
          LET m == InitFresh(timer_num, StartTime, garbage) IN
          /\ timer_head = m.head
          /\ timer_bucket = m.bucket
          /\ timer_obj = m.obj
    /\ clock = StartTime
    /\ pc = "idle"
    /\ upd = IdleUpd
    /\ ret = 0
    /\ issued = {}
    /\ deleted = {}
    /\ freed = {}

\* one tick of the external clock passes
Tick ==
    /\ pc = "idle"
    /\ clock < StartTime + MaxClock
    /\ clock' = clock + 1
    /\ UNCHANGED <<timer_head, timer_bucket, timer_obj, pc, upd, ret, issued, deleted, freed>>

\* AddTimer is called outside a callback; at most `adds` successful calls
\* are explored
AddTimerWithin(adds, interval_ms, fire_count) ==
    /\ pc = "idle"
    /\ timer_head.seq < StartTime + adds
    /\ LET r == AddTimerOp(Mem, clock, interval_ms, fire_count) IN
       /\ SetMem(r.m)
       /\ ret' = r.ret
       /\ issued' = IF r.ret = 0 THEN issued \cup {r.timer_id} ELSE issued
    /\ UNCHANGED <<clock, pc, upd, deleted, freed>>

AddTimer(interval_ms, fire_count) == AddTimerWithin(MaxSeq, interval_ms, fire_count)

DelTimer(timer_id) ==
    /\ pc = "idle"
    /\ DelTimerReturns(Mem, timer_id)
    /\ LET r == DelTimerOp(Mem, timer_id) IN
       /\ SetMem(r.m)
       /\ ret' = r.ret
       /\ deleted' = IF r.ret = 0 THEN deleted \cup {timer_id} ELSE deleted
       /\ freed' = freed \cup Released(Mem, r.m)
    /\ UNCHANGED <<clock, pc, upd, issued>>

GetExpireTime(timer_id) ==
    /\ pc = "idle"
    /\ LET r == GetExpireTimeOp(Mem, timer_id) IN
       ret' = r.ret
    /\ UNCHANGED <<timer_head, timer_bucket, timer_obj, clock, pc, upd, issued, deleted, freed>>

FireCountsCapped(m) == \A p \in DOMAIN m.obj : m.obj[p].fire_count <= FireCap

\* Update is called: it runs to its first OnTimeout invocation or returns
UpdateCall ==
    /\ pc = "idle"
    /\ LET r == UpdateEnter(Mem, clock) IN
       /\ FireCountsCapped(r.m)
       /\ SetMem(r.m)
       /\ upd' = r.u
       /\ pc' = r.pc
       /\ freed' = freed \cup Released(Mem, r.m)
    /\ ret' = 0
    /\ UNCHANGED <<clock, issued, deleted>>

\* the running callback calls DelTimer
CbDelTimer(timer_id) ==
    /\ pc = "cb"
    /\ upd.ops < MaxCbOps
    /\ DelTimerReturns(Mem, timer_id)
    /\ LET r == DelTimerOp(Mem, timer_id) IN
       /\ SetMem(r.m)
       /\ ret' = r.ret
       /\ freed' = freed \cup Released(Mem, r.m)
    /\ upd' = [upd EXCEPT !.ops = @ + 1]
    /\ UNCHANGED <<clock, pc, issued, deleted>>

\* the running callback calls AddTimer (the clock read is that of Update:
\* no tick passes while Update runs)
CbAddTimerWithin(adds, interval_ms, fire_count) ==
    /\ pc = "cb"
    /\ upd.ops < MaxCbOps
    /\ timer_head.seq < StartTime + adds
    /\ LET r == AddTimerOp(Mem, clock, interval_ms, fire_count) IN
       /\ SetMem(r.m)
       /\ ret' = r.ret
       /\ issued' = IF r.ret = 0 THEN issued \cup {r.timer_id} ELSE issued
    /\ upd' = [upd EXCEPT !.ops = @ + 1]
    /\ UNCHANGED <<clock, pc, deleted, freed>>

CbAddTimer(interval_ms, fire_count) == CbAddTimerWithin(MaxSeq, interval_ms, fire_count)

\* the running callback returns: Update goes on to the next invocation or returns
CbReturn ==
    /\ pc = "cb"
    /\ LET r == AfterCallback(Mem, upd) IN
       /\ FireCountsCapped(r.m)
       /\ SetMem(r.m)
       /\ upd' = r.u
       /\ pc' = r.pc
       /\ freed' = freed \cup Released(Mem, r.m)
    /\ UNCHANGED <<clock, ret, issued, deleted>>

Next ==
    \/ Tick
    \/ \E interval_ms \in 0..(kTimerBucketNum + 1), fire_count \in (-1)..MaxFire :
          AddTimer(interval_ms, fire_count)
    \/ \E timer_id \in Handles : DelTimer(timer_id)
    \/ \E timer_id \in Handles : GetExpireTime(timer_id)
    \/ UpdateCall
    \/ \E timer_id \in Handles : CbDelTimer(timer_id)
    \/ \E interval_ms \in 0..(kTimerBucketNum + 1), fire_count \in (-1)..MaxFire :
          CbAddTimer(interval_ms, fire_count)
    \/ CbReturn

Spec == Init /\ [][Next]_vars

\* A wheel of capacity 2 on a zero-filled buffer, driven with valid
\* arguments and handles AddTimer has returned, explored over one more
\* successful AddTimer than Spec.
InitZeroed ==
    /\ LET m == InitFresh(ZeroedNum, StartTime,
                          [i \in 1..ZeroedNum |->
                              [used |-> 0, interval_ms |-> 0, max_fire_count |-> 0,
                               fire_count |-> 0, expire |-> 0, timer_id |-> TimerID(0, 0)]])
       IN /\ timer_head = m.head
          /\ timer_bucket = m.bucket
          /\ timer_obj = m.obj
    /\ clock = StartTime
    /\ pc = "idle"
    /\ upd = IdleUpd
    /\ ret = 0
    /\ issued = {}
    /\ deleted = {}
    /\ freed = {}

NextZeroed ==
    \/ Tick
    \/ \E interval_ms \in 1..kTimerBucketNum, fire_count \in 0..MaxFire :
          AddTimerWithin(MaxSeq + 1, interval_ms, fire_count)
    \/ \E timer_id \in issued : DelTimer(timer_id)
    \/ UpdateCall
    \/ \E timer_id \in issued : CbDelTimer(timer_id)
    \/ \E interval_ms \in 1..kTimerBucketNum, fire_count \in 0..MaxFire :
          CbAddTimerWithin(MaxSeq + 1, interval_ms, fire_count)
    \/ CbReturn

SpecZeroed == InitZeroed /\ [][NextZeroed]_vars

\* Callbacks that delete their own timer and make no other call
CbDelSelf ==
    /\ pc = "cb"
    /\ upd.ops = 0
    /\ CbDelTimer(timer_obj[upd.pos].timer_id)

NextSelfDel ==
    \/ Tick
    \/ \E interval_ms \in 0..(kTimerBucketNum + 1), fire_count \in (-1)..MaxFire :
          AddTimer(interval_ms, fire_count)
    \/ \E timer_id \in Handles : DelTimer(timer_id)
    \/ \E timer_id \in Handles : GetExpireTime(timer_id)
    \/ UpdateCall
    \/ CbDelSelf
    \/ CbReturn

SpecSelfDel == Init /\ [][NextSelfDel]_vars

\* The same wheel with callbacks that may delete any timers (their own, the
\* next one of the bucket, any other) and never add one.
NextDel ==
    \/ Tick
    \/ \E interval_ms \in 0..(kTimerBucketNum + 1), fire_count \in (-1)..MaxFire :
          AddTimer(interval_ms, fire_count)
    \/ \E timer_id \in Handles : DelTimer(timer_id)
    \/ \E timer_id \in Handles : GetExpireTime(timer_id)
    \/ UpdateCall
    \/ \E timer_id \in Handles : CbDelTimer(timer_id)
    \/ CbReturn

SpecDel == Init /\ [][NextDel]_vars

\* The wheel with quiet callbacks, and between public operations a manager
\* object that attaches to the buffer with Init(mem, max_size, timer_num,
\* false) and takes over.
\* the caller's values: the stored ones and their neighbours
AttachArgs ==
    [max_size : {StoredSizes(Mem).max_size + e : e \in {-8, 0, 8}},
     data_size : DataSizes,
     timer_num : {n \in 1..(MaxNum + 1) : n - timer_head.max_num \in {-1, 0, 1}}]

Reattach(a) ==
    /\ pc = "idle"
    /\ LET r == InitAttach(Mem, StoredSizes(Mem), a.max_size, a.data_size, a.timer_num) IN
       /\ SetMem(r.m)
       /\ ret' = r.ret
    /\ UNCHANGED <<clock, pc, upd, issued, deleted, freed>>

NextAttach ==
    \/ Tick
    \/ \E interval_ms \in 0..(kTimerBucketNum + 1), fire_count \in (-1)..MaxFire :
          AddTimer(interval_ms, fire_count)
    \/ \E timer_id \in Handles : DelTimer(timer_id)
    \/ \E timer_id \in Handles : GetExpireTime(timer_id)
    \/ UpdateCall
    \/ CbReturn
    \/ \E a \in AttachArgs : Reattach(a)

SpecAttach == Init /\ [][NextAttach]_vars

----------------------------------------------------------------------------
\* Sustained ticking: Update is called at every tick, for ever.  The clock
\* has no bound here, so the state is kept finite by two changes no branch
\* of the code can tell from the original: all times are moved back by one
\* revolution when the clock reaches LiveTop (the code reads times only
\* through differences and modulo kTimerBucketNum), and fire_count stops
\* counting at FireCap (above the largest max_fire_count it is compared to).

LiveTop == 2 * kTimerBucketNum

Rebase(m) ==
    [m EXCEPT !.head.cur_bucket_time = @ - kTimerBucketNum,
              !.obj = [p \in DOMAIN m.obj |->
                          [m.obj[p] EXCEPT !.expire =
                              IF @ > m.head.cur_bucket_time
                              THEN @ - kTimerBucketNum ELSE @]]]

Saturate(m) ==
    [m EXCEPT !.obj = [p \in DOMAIN m.obj |->
                          [m.obj[p] EXCEPT !.fire_count =
                              IF @ > FireCap THEN FireCap ELSE @]]]

\* the next tick begins once Update has run for the current one
TickLive ==
    /\ pc = "idle"
    /\ timer_head.cur_bucket_time = clock
    /\ IF clock < LiveTop
       THEN /\ clock' = clock + 1
            /\ UNCHANGED <<timer_head, timer_bucket, timer_obj>>
       ELSE /\ clock' = clock + 1 - kTimerBucketNum
            /\ SetMem(Rebase(Mem))
    /\ UNCHANGED <<pc, upd, ret, issued, deleted, freed>>

UpdateCallLive ==
    /\ pc = "idle"
    /\ timer_head.cur_bucket_time < clock
    /\ LET r == UpdateEnter(Mem, clock) IN
       /\ SetMem(Saturate(r.m))
       /\ upd' = r.u
       /\ pc' = r.pc
       /\ freed' = freed \cup Released(Mem, r.m)
    /\ ret' = 0
    /\ UNCHANGED <<clock, issued, deleted>>

CbReturnLive ==
    /\ pc = "cb"
    /\ LET r == AfterCallback(Mem, upd) IN
       /\ SetMem(Saturate(r.m))
       /\ upd' = r.u
       /\ pc' = r.pc
       /\ freed' = freed \cup Released(Mem, r.m)
    /\ UNCHANGED <<clock, ret, issued, deleted>>

\* the handles DelTimer is called with: those of timers with a fire limit
\* (the unlimited timers are the ones never deleted)
Deletable ==
    {h \in issued : ~(timer_obj[h[1]].timer_id = h /\ timer_obj[h[1]].max_fire_count = 0)}

NextLive ==
    \/ TickLive
    \/ \E interval_ms \in 1..kTimerBucketNum, fire_count \in 0..1 :
          AddTimerWithin(MaxSeq + 1, interval_ms, fire_count)
    \/ UpdateCallLive
    \/ \E timer_id \in Deletable : CbDelTimer(timer_id)
    \/ \E interval_ms \in 1..kTimerBucketNum, fire_count \in 0..1 :
          CbAddTimerWithin(MaxSeq + 1, interval_ms, fire_count)
    \/ CbReturnLive

\* the caller calls Update at every tick and every callback returns
SpecLive ==
    /\ InitZeroed
    /\ [][NextLive]_vars
    /\ WF_vars(TickLive)
    /\ WF_vars(UpdateCallLive)
    /\ WF_vars(CbReturnLive)

----------------------------------------------------------------------------
\* Vocabulary of the properties

\* OnTimeout has just been invoked for slot upd.pos (line 323) and the
\* callback has not yet called into the manager
Invoked == pc = "cb" /\ upd.ops = 0

\* the handle and the slot passed to the invocation
FiredId == timer_obj[upd.pos].timer_id
FiredObj == timer_obj[upd.pos]

ValidIntervals == 1..kTimerBucketNum
ValidFireCounts == 0..MaxFire

\* number of OnTimeout invocations with handle h in a log of UpdateQuiet
FiresOf(log, h) == Cardinality({n \in 1..Len(log) : log[n].timer_id = h})

\* the handles invoked in a log
FiredIn(log) == {log[n].timer_id : n \in 1..Len(log)}

\* the slots met walking the next links from p, at most fuel of them
RECURSIVE ListFrom(_, _, _)
ListFrom(m, p, fuel) ==
    IF p = 0 \/ fuel = 0 THEN <<>>
    ELSE <<p>> \o ListFrom(m, m.obj[p].next, fuel - 1)

\* a walk longer than the capacity has met a slot twice
FreeSeq(m) == ListFrom(m, m.head.free_head, m.head.max_num + 1)
BucketSeq(m, b) == ListFrom(m, m.bucket[b], m.head.max_num + 1)

Range(sq) == {sq[n] : n \in 1..Len(sq)}

OnFreeList(m, p) == p \in Range(FreeSeq(m))

\* Update called once per tick from tick t to tick now, with quiet callbacks
RECURSIVE PerTickRun(_, _, _, _)
PerTickRun(m, t, now, log) ==
    IF t > now THEN [m |-> m, log |-> log]
    ELSE LET r == UpdateQuiet(m, t) IN PerTickRun(r.m, t + 1, now, log \o r.log)

----------------------------------------------------------------------------
\* C1: whenever Update, run with current tick now, invokes OnTimeout for a
\* timer, the expire tick stored for that timer is <= now.
C1_NeverBeforeDeadline ==
    (Invoked /\ FiredObj.used # 0 /\ FiredId \in issued)
        => FiredObj.expire <= upd.now_ms

\* C2: for every valid interval and every wheel state between public calls,
\* a successful AddTimer followed at once by one Update whose clock is
\* exactly interval ticks later invokes OnTimeout for the new timer exactly
\* once during that Update.
C2_AddThenUpdateFiresOnce ==
    pc = "idle" =>
        \A interval_ms \in ValidIntervals, fire_count \in ValidFireCounts :
            LET a == AddTimerOp(Mem, clock, interval_ms, fire_count) IN
            a.ret = 0 =>
                FiresOf(UpdateQuiet(a.m, clock + interval_ms).log, a.timer_id) = 1

\* C3: a one-shot timer (fire_count argument 1) has OnTimeout invoked at most
\* once, and once it has fired its slot is unused and back on the free list
\* when Update returns.
C3_OneShotOnceThenFree ==
    /\ (Invoked /\ FiredId \in issued /\ FiredObj.max_fire_count = 1)
          => FiredObj.fire_count <= 1
    /\ pc = "idle" =>
          \A h \in issued :
              (/\ timer_obj[h[1]].timer_id = h
               /\ timer_obj[h[1]].max_fire_count = 1
               /\ timer_obj[h[1]].fire_count >= 1)
                  => (timer_obj[h[1]].used = 0 /\ OnFreeList(Mem, h[1]))

\* C4: a timer added with fire_count k > 1 and interval d is invoked exactly
\* k times, the j-th time at tick add_time + j*d, and is then released and
\* never invoked again.  Stated for Updates that cover a single tick (Update
\* called at every tick), where a firing d ticks after the previous one (or
\* after AddTimer) is a firing at the stored expire tick.
C4_RepeatingOnTimeThenFree ==
    /\ (Invoked /\ FiredId \in issued /\ FiredObj.max_fire_count > 1)
          => /\ FiredObj.fire_count <= FiredObj.max_fire_count
             /\ upd.wheel_count = 1 => upd.now_ms = FiredObj.expire
    /\ pc = "idle" =>
          \A h \in issued :
              (/\ timer_obj[h[1]].timer_id = h
               /\ timer_obj[h[1]].max_fire_count > 1
               /\ timer_obj[h[1]].fire_count >= timer_obj[h[1]].max_fire_count)
                  => (timer_obj[h[1]].used = 0 /\ OnFreeList(Mem, h[1]))

\* every timer AddTimer has returned and that is still active is pending
\* within one revolution after the recorded tick, as it is when the wheel
\* was up to date at its AddTimer or at its last firing
PendingWithinRevolution ==
    \A h \in issued :
        (timer_obj[h[1]].timer_id = h /\ timer_obj[h[1]].used # 0) =>
            /\ timer_head.cur_bucket_time < timer_obj[h[1]].expire
            /\ timer_obj[h[1]].expire <= timer_head.cur_bucket_time + kTimerBucketNum

\* C5: one Update called after m > kTimerBucketNum ticks invokes OnTimeout
\* for the same timers, the same number of times each, as one Update per
\* tick over those m ticks, in non-decreasing order of the expire ticks.
C5_CatchUpEqualsPerTick ==
    (/\ pc = "idle"
     /\ clock - timer_head.cur_bucket_time > kTimerBucketNum
     /\ PendingWithinRevolution) =>
        LET one  == UpdateQuiet(Mem, clock).log
            each == PerTickRun(Mem, timer_head.cur_bucket_time + 1, clock, <<>>).log
        IN /\ FiredIn(one) = FiredIn(each)
           /\ \A h \in FiredIn(each) : FiresOf(one, h) = FiresOf(each, h)
           /\ \A n \in 1..(Len(one) - 1) : one[n].expire <= one[n + 1].expire

\* C6: once a DelTimer(h) called outside a callback has returned success,
\* OnTimeout is never invoked with handle h again.
C6_DeletedNeverFires ==
    Invoked => FiredId \notin deleted

\* C7: once the timer of handle h has been released, DelTimer(h) and
\* GetExpireTime(h) return an error and leave the memory as it is, also after
\* the slot has been allocated again; the slot then carries another
\* sequence number.
C7_StaleHandleRejected ==
    \A h \in freed :
        /\ DelTimerOp(Mem, h).ret = -1
        /\ DelTimerOp(Mem, h).m = Mem
        /\ GetExpireTimeOp(Mem, h).ret = -1
        /\ timer_obj[h[1]].used # 0 => timer_obj[h[1]].timer_id[2] # h[2]

\* C7 witness: the slot of a released handle is allocated again, and a call
\* has just returned an error.
C7_Witness ==
    /\ ret = -1
    /\ \E h \in freed : timer_obj[h[1]].used # 0 /\ timer_obj[h[1]].timer_id # h

\* C8: on a wheel of capacity n, after n successful AddTimer calls and no
\* release, a valid AddTimer returns -2 and changes nothing; after one
\* successful DelTimer a valid AddTimer succeeds.
C8_Capacity ==
    (pc = "idle" /\ Cardinality(issued) = timer_head.max_num /\ freed = {}) =>
        \A interval_ms \in ValidIntervals, fire_count \in ValidFireCounts :
            LET a == AddTimerOp(Mem, clock, interval_ms, fire_count) IN
            /\ a.ret = -2
            /\ a.m = Mem
            /\ \A h \in issued :
                  LET x == DelTimerOp(Mem, h) IN
                  /\ x.ret = 0
                  /\ AddTimerOp(x.m, clock, interval_ms, fire_count).ret = 0

\* C8 witness: the wheel is full, nothing was released, and an AddTimer has
\* just been refused with -2.
C8_Witness ==
    /\ pc = "idle"
    /\ Cardinality(issued) = timer_head.max_num
    /\ freed = {}
    /\ ret = -2

\* the slots reachable by walking all bucket lists
BucketSlots(m) == UNION {Range(BucketSeq(m, b)) : b \in Buckets}

\* C9: used_num equals the number of slots reachable by walking all the
\* bucket lists, and never exceeds the capacity.
C9_UsedNumCountsBuckets ==
    /\ timer_head.used_num = Cardinality(BucketSlots(Mem))
    /\ timer_head.used_num <= timer_head.max_num

\* the number of lists (free list, bucket lists) slot p is a member of
ListsHolding(m, p) ==
    (IF OnFreeList(m, p) THEN 1 ELSE 0)
      + Cardinality({b \in Buckets : p \in Range(BucketSeq(m, b))})

\* C10: between public operations every slot is a member of exactly one
\* list: the free list, and then used = 0, or one bucket list, and then
\* used = 1.
C10_ExactlyOneList ==
    pc = "idle" =>
        \A p \in 1..timer_head.max_num :
            /\ ListsHolding(Mem, p) = 1
            /\ OnFreeList(Mem, p) => timer_obj[p].used = 0
            /\ ~OnFreeList(Mem, p) => timer_obj[p].used = 1

\* a step that is a call of AddTimer, DelTimer or GetExpireTime, made
\* outside or inside a callback
PublicCall ==
    \/ \E interval_ms \in 0..(kTimerBucketNum + 1), fire_count \in (-1)..MaxFire :
          AddTimer(interval_ms, fire_count) \/ CbAddTimer(interval_ms, fire_count)
    \/ \E timer_id \in Handles :
          DelTimer(timer_id) \/ CbDelTimer(timer_id) \/ GetExpireTime(timer_id)

\* C11: whenever AddTimer, DelTimer or GetExpireTime returns an error code,
\* the head, every bucket head and every slot are as they were before the
\* call.
C11_NoPartialFailure ==
    [][(PublicCall /\ ret' # 0) =>
          UNCHANGED <<timer_head, timer_bucket, timer_obj>>]_vars

\* C11 witness: a call has just returned an error while timers are active.
C11_Witness ==
    /\ ret < 0
    /\ timer_head.used_num > 0
    /\ \E p \in 1..timer_head.max_num : p \in BucketSlots(Mem)

\* the values gettimeofday may give AddTimer: the clock, or an earlier one
\* when the system time was set back
ClockReadings == 0..(StartTime + MaxClock)

\* the fields of slot p that describe a timer, and the buckets that hold it
TimerFields(m, p) ==
    [used |-> m.obj[p].used, timer_id |-> m.obj[p].timer_id,
     expire |-> m.obj[p].expire, interval_ms |-> m.obj[p].interval_ms,
     max_fire_count |-> m.obj[p].max_fire_count, fire_count |-> m.obj[p].fire_count,
     buckets |-> {b \in Buckets : p \in Range(BucketSeq(m, b))}]

\* C12: AddTimer returns -1 and allocates nothing when interval <= 0,
\* interval > kTimerBucketNum, fire_count < 0 or now + interval is earlier
\* than the recorded tick; for every other input, with a slot on the free
\* list, it returns 0, stores expire = now + interval and fire_count = 0 in
\* the new slot and leaves the fields and bucket membership of every other
\* active timer as they were.
C12_AddTimerValidation ==
    \A now \in ClockReadings, interval_ms \in 0..(kTimerBucketNum + 1),
       fire_count \in (-1)..MaxFire :
        LET a == AddTimerOp(Mem, now, interval_ms, fire_count) IN
        IF \/ interval_ms <= 0 \/ interval_ms > kTimerBucketNum \/ fire_count < 0
           \/ now + interval_ms < timer_head.cur_bucket_time
        THEN a.ret = -1 /\ a.m = Mem
        ELSE timer_head.free_head > 0 =>
               /\ a.ret = 0
               /\ a.timer_id[1] = timer_head.free_head
               /\ a.m.obj[a.timer_id[1]].used = 1
               /\ a.m.obj[a.timer_id[1]].expire = now + interval_ms
               /\ a.m.obj[a.timer_id[1]].fire_count = 0
               /\ a.m.obj[a.timer_id[1]].max_fire_count = fire_count
               /\ a.m.obj[a.timer_id[1]].interval_ms = interval_ms
               /\ a.m.head.used_num = timer_head.used_num + 1
               /\ \A p \in 1..timer_head.max_num :
                     (/\ p # a.timer_id[1] /\ timer_obj[p].used # 0
                      /\ timer_obj[p].timer_id \in issued) =>
                         TimerFields(a.m, p) = TimerFields(Mem, p)

\* the handles AddTimer can return under SpecLive
LiveHandles ==
    {TimerID(p, q) : p \in 1..ZeroedNum, q \in StartTime..(StartTime + MaxSeq)}

\* h is the handle of an active timer added with fire_count = 0
Unlimited(h) ==
    /\ h \in issued
    /\ timer_obj[h[1]].used # 0
    /\ timer_obj[h[1]].timer_id = h
    /\ timer_obj[h[1]].max_fire_count = 0

\* C13: with Update called at every tick, a timer added with fire_count = 0
\* and never deleted is invoked again and again, each invocation after the
\* first at the expire tick stored by the previous one (interval ticks after
\* it), and its slot is never released.
C13_UnlimitedFiresForever ==
    /\ [](\A h \in LiveHandles :
            (Invoked /\ FiredId = h /\ Unlimited(h) /\ FiredObj.fire_count >= 2)
                => upd.now_ms = FiredObj.expire)
    /\ [][\A h \in LiveHandles : Unlimited(h) => Unlimited(h)']_vars
    /\ \A h \in LiveHandles : [](Unlimited(h) => <>(Invoked /\ FiredId = h))

\* used_num counts the slots in the buckets, every slot is in exactly one
\* list, and the slots in the buckets are the active timers
ListsConsistent(m) ==
    /\ m.head.used_num = Cardinality(BucketSlots(m))
    /\ \A q \in 1..m.head.max_num :
          /\ ListsHolding(m, q) = 1
          /\ q \in BucketSlots(m) <=> (m.obj[q].used # 0 /\ m.obj[q].timer_id \in issued)

NextReleased ==
    /\ pc = "cb"
    /\ upd.ops > 0
    /\ timer_obj[upd.pos].expire <= upd.now_ms
    /\ upd.next # 0
    /\ timer_obj[upd.next].used = 0
    /\ timer_obj[upd.next].timer_id \in freed

\* C15: when a callback releases the slot saved as the next one to visit,
\* the walk of that bucket stops when the callback returns: the next
\* OnTimeout invocation of this Update, if any, is in a later bucket, its
\* timer is active, and the timers that were linked after the released slot
\* stay linked and active, not fired in this walk.
C15_HazardDefersOnly ==
    NextReleased =>
        LET r     == AfterCallback(Mem, upd)
            after == Range(ListFrom(Mem, timer_obj[upd.next].next,
                                    timer_head.max_num + 1))
        IN /\ r.pc = "cb" =>
                /\ r.u.i > upd.i
                /\ r.m.obj[r.u.pos].used # 0
                /\ r.m.obj[r.u.pos].timer_id \notin freed
           /\ \A q \in after :
                 (timer_obj[q].used # 0 /\ q \in Range(BucketSeq(Mem, WalkedBucket(Mem, upd))))
                     => /\ r.m.obj[q].used # 0
                        /\ r.m.obj[q].fire_count = timer_obj[q].fire_count
                        /\ q \in Range(BucketSeq(r.m, WalkedBucket(Mem, upd)))

\* the rest of a running Update when the current callback returns now and
\* every later callback makes no call: TRUE when Update returns after at most
\* n further returns from OnTimeout
RECURSIVE UpdateReturnsWithin(_, _)
UpdateReturnsWithin(r, n) ==
    IF r.pc = "idle" THEN TRUE
    ELSE IF n = 0 THEN FALSE
    ELSE UpdateReturnsWithin(AfterCallback(r.m, r.u), n - 1)

\* no more OnTimeout invocations than one per slot and walked bucket
MaxInvocations == timer_head.max_num * kTimerBucketNum

\* C16: a running Update returns after finitely many OnTimeout invocations:
\* whatever the callback of a due timer and the callbacks before it have
\* deleted, once the current callback returns Update comes back within one
\* invocation per slot and walked bucket.
C16_UpdateTerminates ==
    (pc = "cb" /\ timer_obj[upd.pos].expire <= upd.now_ms) =>
        UpdateReturnsWithin([pc |-> "cb", m |-> Mem, u |-> upd], MaxInvocations)

\* a step on which a call of Update returns
UpdateReturns == (UpdateCall \/ CbReturn) /\ pc' = "idle"

\* C17: the recorded position is the recorded tick modulo the number of
\* buckets in every state; a call of Update that returns leaves the recorded
\* tick at the clock value it read and the position at that value modulo the
\* number of buckets; on an empty wheel it returns at once, invoking no
\* callback and changing nothing but those two head fields.
C17_TickTracking ==
    /\ [](timer_head.cur_bucket_pos = timer_head.cur_bucket_time % kTimerBucketNum)
    /\ [][UpdateReturns =>
            LET now == IF pc = "idle" THEN clock ELSE upd.now_ms
            IN /\ timer_head'.cur_bucket_time = now
               /\ timer_head'.cur_bucket_pos = now % kTimerBucketNum]_vars
    /\ [][(UpdateCall /\ timer_head.used_num = 0) =>
            /\ pc' = "idle"
            /\ UNCHANGED <<timer_bucket, timer_obj>>
            /\ timer_head' = [timer_head EXCEPT !.cur_bucket_time = clock,
                                                !.cur_bucket_pos = clock % kTimerBucketNum]]_vars

\* Update has returned from a walk of two buckets in which it fired a timer
\* that is still pending
C17_Witness ==
    /\ pc = "idle"
    /\ clock >= StartTime + 2
    /\ timer_head.cur_bucket_time = clock
    /\ \E p \in BucketSlots(Mem) : timer_obj[p].used # 0 /\ timer_obj[p].fire_count > 0

\* the buckets whose list holds slot p
BucketsOf(m, p) == {b \in Buckets : p \in Range(BucketSeq(m, b))}

\* C18: between public operations every active timer is linked in the bucket
\* with index expire mod B and in no other bucket.
C18_BucketPlacement ==
    pc = "idle" =>
        \A h \in Active(Mem) :
            BucketsOf(Mem, h[1]) = {BucketOf(timer_obj[h[1]].expire)}

\* the caller's values agree with the ones a fresh Init stored
SizesAgree(a) ==
    /\ a.max_size = StoredSizes(Mem).max_size
    /\ a.data_size = StoredSizes(Mem).data_size
    /\ a.timer_num = timer_head.max_num

\* C19: Init with fresh = false returns an error exactly when the stored
\* max_size, payload size or capacity differs from the caller's value; in
\* either case head, buckets and slots are left as they were, so every
\* pending timer keeps its handle and expire and a later Update fires the
\* same timers as it would have without the reattachment.
C19_Reattach ==
    pc = "idle" =>
        \A a \in AttachArgs :
            LET r == InitAttach(Mem, StoredSizes(Mem), a.max_size, a.data_size, a.timer_num)
            IN /\ (r.ret # 0) <=> ~SizesAgree(a)
               /\ r.ret \in {-3, -2, -1, 0}
               /\ r.m = Mem
               /\ Active(r.m) = Active(Mem)
               /\ \A h \in Active(Mem) :
                     GetExpireTimeOp(r.m, h) = GetExpireTimeOp(Mem, h)
               /\ \A now \in clock..MaxClock :
                     UpdateQuiet(r.m, now) = UpdateQuiet(Mem, now)

\* a reattachment with the wrong capacity was refused while a timer that had
\* fired before was pending
C19_Witness ==
    /\ ret = -3
    /\ \E h \in Active(Mem) : timer_obj[h[1]].fire_count > 0

\* sq visits no slot twice and ends within the capacity
Acyclic(m, sq) ==
    /\ Len(sq) <= m.head.max_num
    /\ \A i, j \in 1..Len(sq) : sq[i] = sq[j] => i = j

\* the list of bucket b is acyclic, its head has prev = 0 and every link is
\* mirrored by the prev of the slot it leads to
BucketWellFormed(m, b) ==
    LET sq == BucketSeq(m, b) IN
    /\ Acyclic(m, sq)
    /\ m.bucket[b] # 0 => m.obj[m.bucket[b]].prev = 0
    /\ \A x \in Range(sq) :
          m.obj[x].next # 0 => m.obj[m.obj[x].next].prev = x

\* C20: between public operations every bucket list is acyclic with
\* consistent prev and next links and a head whose prev is 0, and the free
\* list is acyclic and holds exactly max_num - used_num slots.
C20_ListsWellFormed ==
    pc = "idle" =>
        /\ \A b \in Buckets : BucketWellFormed(Mem, b)
        /\ Acyclic(Mem, FreeSeq(Mem))
        /\ Len(FreeSeq(Mem)) = timer_head.max_num - timer_head.used_num

\* callbacks that make no call into the manager
NextQuiet ==
    \/ Tick
    \/ \E interval_ms \in 0..(kTimerBucketNum + 1), fire_count \in (-1)..MaxFire :
          AddTimer(interval_ms, fire_count)
    \/ \E timer_id \in Handles : DelTimer(timer_id)
    \/ \E timer_id \in Handles : GetExpireTime(timer_id)
    \/ UpdateCall
    \/ CbReturn

SpecQuiet == Init /\ [][NextQuiet]_vars

====
